---- MODULE Spec2Model ----
(***************************************************************************)
(* Human-in-the-loop application workflow of the job application copilot:  *)
(* the human-step detector (browser/detector.ts), the resolution waiter    *)
(* (waitForHumanStepResolution) and the workflow controller                *)
(* (runApplicationWorkflow), together with the application store rows the  *)
(* controller writes (db/client.ts).                                       *)
(*                                                                         *)
(* Time is counted in milliseconds.  A page wait of d ms advances the      *)
(* clock by exactly d; a detection pass reads the page at one instant.     *)
(***************************************************************************)
EXTENDS Integers, Sequences, FiniteSets, Bags, TLC

(***************************************************************************)
(* Bounds of the model.                                                    *)
(***************************************************************************)
\* most selectors that match on a page handed to the detector alone
MaxMatching == 3
\* most queries, among those of matching selectors, that fail on such a page
MaxFailing == 1
\* largest timeout, in seconds, handed to the waiter alone
MaxTimeoutSec == 9
\* failures of the notifier and of the audit sink after which none follows
MaxFaults == 1
\* largest maxRequests of a rate limiter
MaxLimit == 2
\* windowMs of the rate limiters, in ticks of the clock
WindowTicks == 2
\* last tick of the rate limiter's clock
MaxClock == 4
\* most requests the rate limiter is asked to admit
MaxCalls == 4
\* most browser contexts launched
MaxContexts == 3

(***************************************************************************)
(* Selectors queried by the detector (detector.ts).                        *)
(***************************************************************************)
recaptchaFrame == "iframe[src*=\"recaptcha\"]"
hcaptchaFrame == "iframe[src*=\"hcaptcha\"]"

captchaKeywords ==
  << "text*=\"I'm not a robot\"",
     "text*=\"Verify you are human\"",
     "text*=\"Complete the CAPTCHA\"",
     "text*=\"Security check\"",
     "[class*=\"captcha\" i]",
     "[id*=\"captcha\" i]" >>

twoFAKeywords ==
  << "text*=\"verification code\"",
     "text*=\"Enter the code\"",
     "text*=\"Two-factor authentication\"",
     "text*=\"2FA\"",
     "text*=\"authenticator\"",
     "text*=\"security code\"",
     "input[type=\"text\"][autocomplete*=\"one-time\"]",
     "input[placeholder*=\"code\" i]",
     "input[placeholder*=\"OTP\" i]" >>

fileInputs == "input[type=\"file\"]:visible"

uploadLabels ==
  << "text*=\"Upload resume\"",
     "text*=\"Upload CV\"",
     "text*=\"Attach resume\"",
     "text*=\"Choose file\"" >>

consentKeywords ==
  << "text*=\"Equal Employment Opportunity\"",
     "text*=\"EEO\"",
     "text*=\"Voluntary Self-Identification\"",
     "text*=\"Demographics\"",
     "text*=\"I consent to\"",
     "text*=\"I agree to\"",
     "text*=\"Terms and Conditions\"",
     "text*=\"Privacy Policy\"" >>

checkboxes == "input[type=\"checkbox\"]:not(:checked)"

Range(s) == {s[i] : i \in 1..Len(s)}

\* every selector, in the order the detector queries them
SelectorSeq ==
  <<recaptchaFrame, hcaptchaFrame>> \o captchaKeywords \o twoFAKeywords
    \o <<fileInputs>> \o uploadLabels \o consentKeywords \o <<checkboxes>>

Selectors == Range(SelectorSeq)

(***************************************************************************)
(* The page, as the detector sees it: the selectors that match at least    *)
(* one element, and the selectors whose query fails (the promise of        *)
(* locator.count() rejects).                                               *)
(***************************************************************************)
Rejected == -1

\* page.locator(selector).count(): the promise's outcome
Count(pg, selector) ==
  IF selector \in pg.failing THEN Rejected
  ELSE IF selector \in pg.present THEN 1 ELSE 0

\* mutant: the query has no .catch, so a rejection reaches the caller
CountOrZero_NoCatch(pg, selector) == Count(pg, selector)

\* await page.locator(selector).count().catch(() => 0)
CountOrZero(pg, selector) ==
  IF Count(pg, selector) = Rejected THEN 0 ELSE Count(pg, selector)

NotDetected(type) ==
  [detected |-> FALSE, type |-> type, description |-> "", element |-> ""]

Detected(type, description, element) ==
  [detected |-> TRUE, type |-> type, description |-> description,
   element |-> element]

\* for (const selector of keywords) { count = ...; if (count > 0) return hit }
\* A rejection that reaches the loop leaves through the function's
\* try/catch, which answers `otherwise`.
RECURSIVE FirstMatch(_, _, _, _, _, _)
FirstMatch(pg, keywords, i, type, description, otherwise) ==
  IF i > Len(keywords) THEN otherwise
  ELSE IF CountOrZero(pg, keywords[i]) = Rejected THEN otherwise
  ELSE IF CountOrZero(pg, keywords[i]) > 0
       THEN Detected(type, description, keywords[i])
  ELSE FirstMatch(pg, keywords, i + 1, type, description, otherwise)

detectCaptcha(pg) ==
  LET none == NotDetected("captcha")
      recaptchaVisible == CountOrZero(pg, recaptchaFrame)
      hcaptchaVisible == CountOrZero(pg, hcaptchaFrame)
  IN  IF recaptchaVisible = Rejected THEN none
      ELSE IF recaptchaVisible > 0
           THEN Detected("captcha", "reCAPTCHA verification required",
                         recaptchaFrame)
      ELSE IF hcaptchaVisible = Rejected THEN none
      ELSE IF hcaptchaVisible > 0
           THEN Detected("captcha", "hCaptcha verification required",
                         hcaptchaFrame)
      ELSE FirstMatch(pg, captchaKeywords, 1, "captcha",
                      "CAPTCHA verification required", none)

detect2FA(pg) ==
  FirstMatch(pg, twoFAKeywords, 1, "2fa",
             "Two-factor authentication or verification code required",
             NotDetected("2fa"))

\* mutant: a visible file input alone is reported
detectFileUpload_BareInput(pg) ==
  IF CountOrZero(pg, fileInputs) > 0
  THEN Detected("file_upload",
                "File upload required (resume/CV or document)", fileInputs)
  ELSE NotDetected("file_upload")

detectFileUpload(pg) ==
  LET none == NotDetected("file_upload")
      inputs == CountOrZero(pg, fileInputs)
  IN  IF inputs = Rejected THEN none
      ELSE IF inputs > 0
           THEN FirstMatch(pg, uploadLabels, 1, "file_upload",
                           "File upload required (resume/CV or document)",
                           none)
      ELSE none

\* for each consent keyword that matches, the unchecked checkboxes are
\* counted again
RECURSIVE ConsentLoop(_, _)
ConsentLoop(pg, i) ==
  LET none == NotDetected("consent")
  IN  IF i > Len(consentKeywords) THEN none
      ELSE IF CountOrZero(pg, consentKeywords[i]) = Rejected THEN none
      ELSE IF CountOrZero(pg, consentKeywords[i]) > 0
           THEN IF CountOrZero(pg, checkboxes) = Rejected THEN none
                ELSE IF CountOrZero(pg, checkboxes) > 0
                     THEN Detected("consent",
                            "Consent or EEO form requires review and confirmation",
                            consentKeywords[i])
                ELSE ConsentLoop(pg, i + 1)
      ELSE ConsentLoop(pg, i + 1)

\* mutant: consent text alone is reported
detectConsent_TextOnly(pg) ==
  FirstMatch(pg, consentKeywords, 1, "consent",
             "Consent or EEO form requires review and confirmation",
             NotDetected("consent"))

detectConsent(pg) == ConsentLoop(pg, 1)

\* detectHumanStep returns null when nothing is detected
Null == [detected |-> FALSE, type |-> "none", description |-> "",
         element |-> ""]

\* mutant: the 2FA check runs before the CAPTCHA check
detectHumanStep_2FAFirst(pg) ==
  IF detect2FA(pg).detected THEN detect2FA(pg)
  ELSE IF detectCaptcha(pg).detected THEN detectCaptcha(pg)
  ELSE IF detectFileUpload(pg).detected THEN detectFileUpload(pg)
  ELSE IF detectConsent(pg).detected THEN detectConsent(pg)
  ELSE Null

detectHumanStep(pg) ==
  IF detectCaptcha(pg).detected THEN detectCaptcha(pg)
  ELSE IF detect2FA(pg).detected THEN detect2FA(pg)
  ELSE IF detectFileUpload(pg).detected THEN detectFileUpload(pg)
  ELSE IF detectConsent(pg).detected THEN detectConsent(pg)
  ELSE Null


(***************************************************************************)
(* Program constants.                                                      *)
(***************************************************************************)
\* const maxLoops = 20 (automator, runApplicationWorkflow)
maxLoops == 20
\* timeoutMs = 300000, the waiter's default
DefaultTimeoutMs == 300000
\* await page.waitForTimeout(2000) between two polls of the waiter
PollIntervalMs == 2000

\* messages of the exceptions the collaborators raise
NavError == "page.goto failed"
WaitError == "page.waitForTimeout failed"
StoreError == "database error"

NoResult == [success |-> FALSE, message |-> <<"pending">>]
TimeoutMessage(type) == <<"Timeout waiting for", type, "resolution">>
CompletedMessage == <<"Application workflow completed successfully">>

(***************************************************************************)
(* Pages the browser shows during a workflow run.                          *)
(***************************************************************************)
BlankPage == [present |-> {}, failing |-> {}]
ConsentPage == [present |-> {consentKeywords[2], checkboxes}, failing |-> {}]
CaptchaConsentPage ==
  [present |-> {recaptchaFrame, consentKeywords[2], checkboxes},
   failing |-> {}]

WorkflowPages ==
  {BlankPage, ConsentPage, CaptchaConsentPage}

(***************************************************************************)
(* State.                                                                  *)
(***************************************************************************)
VARIABLES
  entry,          \* the function under execution: "run", "waiter", "detector"
  pc,             \* its position
  page,           \* the live page
  app,            \* the applications row: status, started_at, completed_at
  stamp,          \* CURRENT_TIMESTAMP of the store, a logical time
  steps,          \* application_steps.step_type, in insertion order
  stepDetail,     \* what the description of the last step row carries
  auditLog,       \* audit_log rows by content (action type, user_confirmed):
                  \* a bag, the order of the rows is not kept
  auditFailures,  \* audit writes that raised inside audit()
  notifyCalls,    \* calls of sendNotification, by title
  notifyFailures, \* desktop notifications that raised inside sendNotification
  faultBudget,    \* the notifier and the audit sink fail only while fewer
                  \* failures than this have happened in the run
  effects,        \* effects of the latest cycle that detected a step, in order
  loopCount, continueApplication, humanStep,   \* locals of the workflow
  error,          \* message of the exception the workflow caught, or ""
  result,         \* the workflow's return value
  detectionResult, timeoutMs, elapsed, currentResult,  \* the waiter's
  resolved,       \* the waiter's return value: "true", "false"; or "pending"
  polls,          \* detector polls the current wait has made
  still,          \* ... of which reported the original category
  lastDetection,  \* type the latest detector pass returned
  cycle1, cycle2, \* what the cycles of the main loop found, kept as long as
                  \* the run has made at most two cycles
  cli,            \* position of the apply command, "none" outside of it
  jobArg,         \* options.job: the characters after --job, or Absent
  exitStatus,     \* exit status of the process: "0", "1"; "none" while it runs
  console,        \* kinds of messages printed
  session,        \* the page of startApplication: "none", "open", "closed"
  applications,   \* number of applications rows of the job
  runId,          \* applicationId handed to the workflow, 0 for none
  jobStatus,      \* jobs.status of the job
  confirmed,      \* prompts the user answered with yes
  prior,          \* the store as the command found it
  limiters,       \* limiters.get(key): the state the limiters of one key share
  clock,          \* Date.now() of the rate limiter, in ticks
  calls,          \* per caller: its limiter's maxRequests and windowMs, the
                  \* position of its call of waitAndProceed, its wake-up time
  admitted,       \* times at which a request was recorded, one per request
  browser,        \* launcher's module variable browser: NULL, or the context
                  \* the Browser owns
  context,        \* launcher's module variable context: NULL or a context
  launches,       \* per caller: the position of its call of launchBrowser
                  \* or closeBrowser, the context it obtained, the object
                  \* it is closing
  contexts        \* the browser contexts that are open

storeVars == <<app, stamp, steps, stepDetail>>
auditVars == <<auditLog, auditFailures>>
notifyVars == <<notifyCalls, notifyFailures>>
sideVars == <<auditVars, notifyVars>>
runVars == <<loopCount, continueApplication, humanStep, error, result>>
waitVars == <<detectionResult, timeoutMs, elapsed, currentResult, resolved>>
ghostVars == <<polls, still, lastDetection, cycle1, cycle2>>
cliVars == <<cli, jobArg, exitStatus, console, session, applications, runId,
             jobStatus, confirmed, prior>>
limVars == <<limiters, clock, calls, admitted>>
\* what no step of the workflow, the waiter or the detector changes
browserVars == <<browser, context, launches, contexts>>
outerVars == <<cliVars, limVars, browserVars, faultBudget>>
vars == <<entry, pc, page, storeVars, sideVars, runVars, waitVars, ghostVars,
          effects, outerVars>>

NULL == 0

\* db/client.ts updateApplicationStatus: the row after the UPDATE
updateApplicationStatus(row, status, now) ==
  [status |-> status,
   startedAt |->
     IF status \in {"in_progress", "paused"}
     THEN (IF row.startedAt = NULL THEN now ELSE row.startedAt)
     ELSE row.startedAt,
   completedAt |->
     IF status \in {"completed", "failed"} THEN now ELSE row.completedAt]

\* db/client.ts addApplicationStep: the step_type column after the INSERT
addApplicationStep(rows, stepType) == Append(rows, stepType)

\* mutant: the loop stops one poll interval early
BeforeDeadline_Early(e, t) == e + PollIntervalMs < t

\* waitForHumanStepResolution: while (Date.now() - startTime < timeoutMs)
BeforeDeadline(e, t) == e < t

\* mutant: whatever the poll reports counts as resolution
IsResolved_AnyResult(cur, orig) == TRUE

\* mutant: only an empty result counts as resolution
IsResolved_OnlyNull(cur, orig) == ~cur.detected

\* !currentResult || currentResult.type !== detectionResult.type
IsResolved(cur, orig) == ~cur.detected \/ cur.type # orig.type

\* locals of the workflow and of the waiter before they are entered, the
\* collaborators unused
InitLocals ==
  /\ auditFailures = 0
  /\ notifyCalls = <<>>
  /\ notifyFailures = 0
  /\ effects = <<>>
  /\ loopCount = 0
  /\ continueApplication = TRUE
  /\ humanStep = Null
  /\ error = ""
  /\ result = NoResult
  /\ currentResult = Null
  /\ resolved = "pending"
  /\ elapsed = 0
  /\ polls = 0
  /\ still = 0
  /\ lastDetection = "unset"
  /\ cycle1 = "unset"
  /\ cycle2 = "unset"

\* the store after createApplication: one run in status queued, no step
FreshStore ==
  [applications |-> 1,
   app |-> [status |-> "queued", startedAt |-> NULL, completedAt |-> NULL],
   stamp |-> 1,
   steps |-> <<>>,
   stepDetail |-> <<>>,
   auditLog |-> EmptyBag]

InitStore(store) ==
  /\ app = store.app
  /\ stamp = store.stamp
  /\ steps = store.steps
  /\ stepDetail = store.stepDetail
  /\ auditLog = store.auditLog

InitCommon ==
  /\ InitStore(FreshStore)
  /\ InitLocals


\* options.job of the apply command
Absent == [given |-> FALSE, value |-> <<>>]
Given(chars) == [given |-> TRUE, value |-> chars]

\* the workflow, the waiter or the detector run without the apply command
\* around them, on the page and the ApplicationRun their caller hands over
InitNoApply ==
  /\ cli = "none"
  /\ jobArg = Absent
  /\ exitStatus = "none"
  /\ console = {}
  /\ session = "open"
  /\ applications = 1
  /\ runId = 1
  /\ jobStatus = "new"
  /\ confirmed = {}
  /\ prior = FreshStore

\* the callers of the rate limiter
Callers == {"a", "b"}

\* a RateLimiter(key, maxRequests, windowMs) on which no call is under way
Idle(maxRequests, windowMs) ==
  [pc |-> "idle", wake |-> 0, maxRequests |-> maxRequests,
   windowMs |-> windowMs]

\* limiters.set(key, { requests: [], lastCleanup: Date.now() })
NoRequests == [requests |-> <<>>, lastCleanup |-> 0]

\* no rate limiter in use
InitNoLimiter ==
  /\ limiters = NoRequests
  /\ clock = 0
  /\ calls = [c \in Callers |-> Idle(1, 1)]
  /\ admitted = <<>>

\* a caller of the launcher that has no call under way
NoCall == [pc |-> "idle", got |-> NULL, target |-> NULL]

\* let browser = null; let context = null
InitNoBrowser ==
  /\ browser = NULL
  /\ context = NULL
  /\ launches = [c \in Callers |-> NoCall]
  /\ contexts = {}

\* a fresh ApplicationRun in status queued, a new page, run(page, context)
Init ==
  /\ InitCommon
  /\ InitNoApply
  /\ InitNoLimiter
  /\ InitNoBrowser
  /\ faultBudget = 0
  /\ entry = "run"
  /\ pc = "start"
  /\ page = BlankPage
  /\ detectionResult = Null
  /\ timeoutMs = DefaultTimeoutMs


(***************************************************************************)
(* The application store, as the workflow calls it.  Every call may raise. *)
(* f names the call of a step that raises: 0 for none, 1 for the first     *)
(* store call of the step, 2 for the second.  Calls after the one that     *)
(* raises are not made.                                                    *)
(***************************************************************************)
WriteStep(stepType, detail) ==
  /\ steps' = addApplicationStep(steps, stepType)
  /\ stepDetail' = detail

WriteStatus(status) ==
  /\ app' = updateApplicationStatus(app, status, stamp)
  /\ stamp' = stamp + 1

\* mutant: the status is written before the step
StepThenStatus_StatusFirst(f, stepType, detail, status) ==
  /\ IF f = 1 THEN UNCHANGED <<app, stamp>> ELSE WriteStatus(status)
  /\ IF f = 0 THEN WriteStep(stepType, detail)
     ELSE UNCHANGED <<steps, stepDetail>>

\* addApplicationStep(...); updateApplicationStatus(...);
StepThenStatus(f, stepType, detail, status) ==
  /\ IF f = 1 THEN UNCHANGED <<steps, stepDetail>>
     ELSE WriteStep(stepType, detail)
  /\ IF f = 0 THEN WriteStatus(status) ELSE UNCHANGED <<app, stamp>>

\* utils/audit.ts audit: try { addAuditLog(...) } catch { logger.error(...) }.
\* The write either adds the row or raises; audit returns in both cases.
audit(actionType, userConfirmed) ==
  \/ /\ auditLog' = auditLog (+) SetToBag({[actionType |-> actionType,
                                             userConfirmed |-> userConfirmed]})
     /\ auditFailures' = auditFailures
  \/ /\ notifyFailures + auditFailures < faultBudget
     /\ auditLog' = auditLog
     /\ auditFailures' = auditFailures + 1

\* browser/notifier.ts sendNotification: try { notifier.notify(...) }
\* catch { logger.error(...) }.  The desktop notification is shown or
\* notifier.notify raises; sendNotification returns in both cases.
sendNotification(title) ==
  /\ notifyCalls' = Append(notifyCalls, title)
  /\ \/ notifyFailures' = notifyFailures
     \/ /\ notifyFailures + auditFailures < faultBudget
        /\ notifyFailures' = notifyFailures + 1

\* what a cycle that detects a human step does before it enters the waiter,
\* in the order of the statements (lines 297-316)
EffectsOfDetection == <<"step", "status", "notifier", "audit">>

\* the waiter's frame is gone once it has returned or raised
WaiterLeft ==
  /\ detectionResult' = Null
  /\ timeoutMs' = DefaultTimeoutMs
  /\ elapsed' = 0
  /\ currentResult' = Null
  /\ polls' = 0
  /\ still' = 0

\* what the cycles of the main loop found; a third cycle ends the record
RecordCycle(found) ==
  IF cycle1 = "unset"
  THEN cycle1' = found.type /\ cycle2' = cycle2
  ELSE IF cycle2 = "unset"
  THEN cycle1' = cycle1 /\ cycle2' = found.type
  ELSE cycle1' = "long run" /\ cycle2' = "long run"

(***************************************************************************)
(* runApplicationWorkflow (browser/automator).                             *)
(***************************************************************************)
\* updateApplicationStatus(in_progress); addApplicationStep(navigation);
\* then the call of navigateToUrl
Start ==
  /\ entry = "run" /\ pc = "start"
  /\ \E f \in 0..2 :
       /\ IF f = 1 THEN UNCHANGED <<app, stamp>>
          ELSE WriteStatus("in_progress")
       /\ IF f = 0 THEN WriteStep("navigation", <<"Navigating to">>)
          ELSE UNCHANGED <<steps, stepDetail>>
       /\ IF f = 0 THEN pc' = "navigate" /\ error' = error
          ELSE pc' = "catch" /\ error' = StoreError
  /\ UNCHANGED <<outerVars, effects>>
  /\ UNCHANGED <<entry, page, sideVars, loopCount, continueApplication,
                 humanStep, result, waitVars, ghostVars>>

\* mutant: sendNotification has no try/catch, a failed notification is
\* thrown into the workflow
Navigate_NotifierThrows ==
  /\ entry = "run" /\ pc = "navigate"
  /\ sendNotification("Application Progress")
  /\ IF notifyFailures' # notifyFailures
     THEN pc' = "catch" /\ error' = "notification failed"
     ELSE pc' = "settle" /\ error' = error
  /\ UNCHANGED <<outerVars, effects>>
  /\ UNCHANGED <<entry, page, storeVars, auditVars, loopCount,
                 continueApplication, humanStep, result, waitVars, ghostVars>>

\* await navigateToUrl(page, url) returns; notifyApplicationProgress
Navigate ==
  /\ entry = "run" /\ pc = "navigate"
  /\ sendNotification("Application Progress")
  /\ pc' = "settle"
  /\ UNCHANGED <<outerVars, effects>>
  /\ UNCHANGED <<entry, page, storeVars, auditVars, runVars, waitVars,
                 ghostVars>>

\* await navigateToUrl(page, url) raises (page.goto or its page wait)
NavigateFails ==
  /\ entry = "run" /\ pc = "navigate"
  /\ error' = NavError
  /\ pc' = "catch"
  /\ UNCHANGED <<outerVars, effects>>
  /\ UNCHANGED <<entry, page, storeVars, sideVars, loopCount,
                 continueApplication, humanStep, result, waitVars, ghostVars>>

\* await page.waitForTimeout(3000) returns; the loop variables are set
Settle ==
  /\ entry = "run" /\ pc = "settle"
  /\ continueApplication' = TRUE
  /\ loopCount' = 0
  /\ pc' = "loop"
  /\ UNCHANGED <<outerVars, effects>>
  /\ UNCHANGED <<entry, page, storeVars, sideVars, humanStep, error, result,
                 waitVars, ghostVars>>

\* a page wait of the workflow raises: the settle delay (3000) or the
\* delay after a resolution (2000)
PageWaitFails ==
  /\ entry = "run" /\ pc \in {"settle", "stabilize"}
  /\ error' = WaitError
  /\ pc' = "catch"
  /\ UNCHANGED <<outerVars, effects>>
  /\ UNCHANGED <<entry, page, storeVars, sideVars, loopCount,
                 continueApplication, humanStep, result, waitVars, ghostVars>>

\* mutant: the loop test has lost its ceiling
LoopContinues_NoCeiling == continueApplication

\* while (continueApplication && loopCount < maxLoops)
LoopContinues == continueApplication /\ loopCount < maxLoops

\* one cycle of the main loop that detects a human step: the step and the
\* status are written, the notifier and the audit sink are called and the
\* waiter is entered
CycleDetected ==
  /\ entry = "run" /\ pc = "loop" /\ LoopContinues
  /\ detectHumanStep(page).detected
  /\ loopCount' = loopCount + 1
  /\ humanStep' = detectHumanStep(page)
  /\ lastDetection' = humanStep'.type
  /\ RecordCycle(humanStep')
  /\ \E f \in 0..2 :
       /\ StepThenStatus(f, "human_step_detected",
                         <<humanStep'.type, humanStep'.description>>,
                         "paused")
       /\ IF f = 0
          THEN /\ sendNotification("Human Step Detected")
               /\ audit("human_step_pause", FALSE)
               /\ detectionResult' = humanStep'
               /\ timeoutMs' = DefaultTimeoutMs
               /\ elapsed' = 0
               /\ currentResult' = Null
               /\ resolved' = "pending"
               /\ polls' = 0
               /\ still' = 0
               /\ error' = error
               /\ pc' = "poll"
               /\ effects' = IF auditFailures' = auditFailures
                             THEN EffectsOfDetection
                             ELSE SubSeq(EffectsOfDetection, 1, 3)
          ELSE /\ error' = StoreError
               /\ pc' = "catch"
               /\ effects' = SubSeq(EffectsOfDetection, 1, f - 1)
               /\ UNCHANGED <<sideVars, waitVars, polls, still>>
  /\ UNCHANGED outerVars
  /\ UNCHANGED <<entry, page, continueApplication, result>>

\* one cycle of the main loop that detects nothing
CycleClear ==
  /\ entry = "run" /\ pc = "loop" /\ LoopContinues
  /\ ~detectHumanStep(page).detected
  /\ loopCount' = loopCount + 1
  /\ humanStep' = detectHumanStep(page)
  /\ lastDetection' = humanStep'.type
  /\ RecordCycle(humanStep')
  /\ continueApplication' = FALSE
  /\ UNCHANGED <<outerVars, effects>>
  /\ UNCHANGED <<entry, pc, page, storeVars, sideVars, error, result,
                 waitVars, polls, still>>

(***************************************************************************)
(* waitForHumanStepResolution (browser/detector.ts).                       *)
(***************************************************************************)
\* a poll before the deadline finds the step gone: return true
PollResolved ==
  /\ pc = "poll" /\ BeforeDeadline(elapsed, timeoutMs)
  /\ IsResolved(detectHumanStep(page), detectionResult)
  /\ currentResult' = detectHumanStep(page)
  /\ lastDetection' = currentResult'.type
  /\ polls' = polls + 1
  /\ resolved' = "true"
  /\ pc' = "waited"
  /\ UNCHANGED <<outerVars, effects>>
  /\ UNCHANGED <<entry, page, storeVars, sideVars, runVars, detectionResult,
                 timeoutMs, elapsed, still, cycle1, cycle2>>

\* a poll before the deadline finds the step still there: go to sleep
PollStillThere ==
  /\ pc = "poll" /\ BeforeDeadline(elapsed, timeoutMs)
  /\ ~IsResolved(detectHumanStep(page), detectionResult)
  /\ currentResult' = detectHumanStep(page)
  /\ lastDetection' = currentResult'.type
  /\ polls' = polls + 1
  /\ still' = still + 1
  /\ pc' = "sleep"
  /\ UNCHANGED <<outerVars, effects>>
  /\ UNCHANGED <<entry, page, storeVars, sideVars, runVars, detectionResult,
                 timeoutMs, elapsed, resolved, cycle1, cycle2>>

\* the deadline has passed at the loop test: return false
PollTimeout ==
  /\ pc = "poll" /\ ~BeforeDeadline(elapsed, timeoutMs)
  /\ resolved' = "false"
  /\ pc' = "waited"
  /\ UNCHANGED <<outerVars, effects>>
  /\ UNCHANGED <<entry, page, storeVars, sideVars, runVars, detectionResult,
                 timeoutMs, elapsed, currentResult, ghostVars>>

\* await page.waitForTimeout(2000) returns
Sleep ==
  /\ pc = "sleep"
  /\ elapsed' = elapsed + PollIntervalMs
  /\ pc' = "poll"
  /\ UNCHANGED <<outerVars, effects>>
  /\ UNCHANGED <<entry, page, storeVars, sideVars, runVars, detectionResult,
                 timeoutMs, currentResult, resolved, ghostVars>>

\* await page.waitForTimeout(2000) raises: the waiter has no handler, the
\* exception reaches its caller
SleepFails ==
  /\ pc = "sleep"
  /\ error' = WaitError
  /\ pc' = (IF entry = "run" THEN "catch" ELSE "threw")
  /\ WaiterLeft
  /\ UNCHANGED <<outerVars, effects>>
  /\ UNCHANGED <<entry, page, storeVars, sideVars, loopCount,
                 continueApplication, humanStep, result, resolved,
                 lastDetection, cycle1, cycle2>>

(***************************************************************************)
(* runApplicationWorkflow, after the waiter.                               *)
(***************************************************************************)
\* mutant: the timeout branch goes round the loop again
TimedOut_Retries ==
  /\ entry = "run" /\ pc = "waited" /\ resolved = "false"
  /\ \E f \in 0..1 :
       IF f = 0
       THEN /\ WriteStatus("paused")
            /\ error' = error
            /\ pc' = "loop"
       ELSE /\ error' = StoreError
            /\ pc' = "catch"
            /\ UNCHANGED <<app, stamp>>
  /\ WaiterLeft
  /\ UNCHANGED <<outerVars, effects>>
  /\ UNCHANGED <<entry, page, steps, stepDetail, sideVars, loopCount,
                 continueApplication, humanStep, result, resolved,
                 lastDetection, cycle1, cycle2>>

\* mutant: the timeout branch marks the run failed
TimedOut_MarksFailed ==
  /\ entry = "run" /\ pc = "waited" /\ resolved = "false"
  /\ \E f \in 0..1 :
       IF f = 0
       THEN /\ WriteStatus("failed")
            /\ result' = [success |-> FALSE,
                          message |-> TimeoutMessage(humanStep.type)]
            /\ error' = error
            /\ pc' = "returned"
       ELSE /\ error' = StoreError
            /\ pc' = "catch"
            /\ UNCHANGED <<app, stamp, result>>
  /\ WaiterLeft
  /\ UNCHANGED <<outerVars, effects>>
  /\ UNCHANGED <<entry, page, steps, stepDetail, sideVars, loopCount,
                 continueApplication, humanStep, resolved, lastDetection,
                 cycle1, cycle2>>

\* if (!resolved) { updateApplicationStatus(paused); return {success:false} }
TimedOut ==
  /\ entry = "run" /\ pc = "waited" /\ resolved = "false"
  /\ \E f \in 0..1 :
       IF f = 0
       THEN /\ WriteStatus("paused")
            /\ result' = [success |-> FALSE,
                          message |-> TimeoutMessage(humanStep.type)]
            /\ error' = error
            /\ pc' = "returned"
       ELSE /\ error' = StoreError
            /\ pc' = "catch"
            /\ UNCHANGED <<app, stamp, result>>
  /\ WaiterLeft
  /\ UNCHANGED <<outerVars, effects>>
  /\ UNCHANGED <<entry, page, steps, stepDetail, sideVars, loopCount,
                 continueApplication, humanStep, resolved, lastDetection,
                 cycle1, cycle2>>

\* mutant: the resolution is not written to the step log
Resolved_NoStep ==
  /\ entry = "run" /\ pc = "waited" /\ resolved = "true"
  /\ \E f \in {0, 2} :
       /\ IF f = 0 THEN WriteStatus("in_progress")
          ELSE UNCHANGED <<app, stamp>>
       /\ IF f = 0
          THEN /\ audit("human_step_resume", TRUE)
               /\ error' = error
               /\ pc' = "stabilize"
          ELSE /\ error' = StoreError
               /\ pc' = "catch"
               /\ UNCHANGED auditVars
  /\ WaiterLeft
  /\ UNCHANGED <<outerVars, effects>>
  /\ UNCHANGED <<entry, page, steps, stepDetail, notifyVars, loopCount,
                 continueApplication, humanStep, result, resolved,
                 lastDetection, cycle1, cycle2>>

\* mutant: the status is not set back to in_progress
Resolved_StaysPaused ==
  /\ entry = "run" /\ pc = "waited" /\ resolved = "true"
  /\ \E f \in 0..1 :
       /\ IF f = 0
          THEN /\ WriteStep("human_step_resolved", <<humanStep.type, "resolved">>)
               /\ audit("human_step_resume", TRUE)
               /\ error' = error
               /\ pc' = "stabilize"
          ELSE /\ error' = StoreError
               /\ pc' = "catch"
               /\ UNCHANGED <<steps, stepDetail, auditVars>>
  /\ WaiterLeft
  /\ UNCHANGED <<outerVars, effects>>
  /\ UNCHANGED <<entry, page, app, stamp, notifyVars, loopCount,
                 continueApplication, humanStep, result, resolved,
                 lastDetection, cycle1, cycle2>>

\* mutant: audit has no try/catch, a failed audit write is thrown into the
\* workflow
Resolved_AuditThrows ==
  /\ entry = "run" /\ pc = "waited" /\ resolved = "true"
  /\ \E f \in 0..2 :
       /\ StepThenStatus(f, "human_step_resolved",
                         <<humanStep.type, "resolved">>, "in_progress")
       /\ IF f = 0
          THEN /\ audit("human_step_resume", TRUE)
               /\ IF auditFailures' # auditFailures
                  THEN error' = "audit write failed" /\ pc' = "catch"
                  ELSE error' = error /\ pc' = "stabilize"
          ELSE /\ error' = StoreError
               /\ pc' = "catch"
               /\ UNCHANGED auditVars
  /\ WaiterLeft
  /\ UNCHANGED <<outerVars, effects>>
  /\ UNCHANGED <<entry, page, notifyVars, loopCount, continueApplication,
                 humanStep, result, resolved, lastDetection, cycle1, cycle2>>

\* addApplicationStep(human_step_resolved);
\* updateApplicationStatus(in_progress); audit(human_step_resume, true)
Resolved ==
  /\ entry = "run" /\ pc = "waited" /\ resolved = "true"
  /\ \E f \in 0..2 :
       /\ StepThenStatus(f, "human_step_resolved",
                         <<humanStep.type, "resolved">>, "in_progress")
       /\ IF f = 0
          THEN /\ audit("human_step_resume", TRUE)
               /\ error' = error
               /\ pc' = "stabilize"
          ELSE /\ error' = StoreError
               /\ pc' = "catch"
               /\ UNCHANGED auditVars
  /\ WaiterLeft
  /\ UNCHANGED <<outerVars, effects>>
  /\ UNCHANGED <<entry, page, notifyVars, loopCount, continueApplication,
                 humanStep, result, resolved, lastDetection, cycle1, cycle2>>

\* await page.waitForTimeout(2000) returns: back to the loop test
Stabilize ==
  /\ entry = "run" /\ pc = "stabilize"
  /\ pc' = "loop"
  /\ UNCHANGED <<outerVars, effects>>
  /\ UNCHANGED <<entry, page, storeVars, sideVars, runVars, waitVars,
                 ghostVars>>

\* the loop is left: addApplicationStep(submission);
\* updateApplicationStatus(completed); notifyApplicationComplete(true)
Complete ==
  /\ entry = "run" /\ pc = "loop" /\ ~LoopContinues
  /\ \E f \in 0..2 :
       /\ StepThenStatus(f, "submission", <<"manual submission required">>,
                         "completed")
       /\ IF f = 0
          THEN /\ sendNotification("Application Complete")
               /\ result' = [success |-> TRUE, message |-> CompletedMessage]
               /\ error' = error
               /\ pc' = "returned"
          ELSE /\ error' = StoreError
               /\ pc' = "catch"
               /\ UNCHANGED <<notifyVars, result>>
  /\ UNCHANGED <<outerVars, effects>>
  /\ UNCHANGED <<entry, page, auditVars, loopCount, continueApplication,
                 humanStep, waitVars, ghostVars>>

\* mutant: the catch block does not mark the run failed
Catch_StatusKept ==
  /\ entry = "run" /\ pc = "catch"
  /\ \E f \in 0..1 :
       IF f = 0
       THEN /\ WriteStep("error", <<"Error:", error>>)
            /\ sendNotification("Application Failed")
            /\ result' = [success |-> FALSE, message |-> <<error>>]
            /\ pc' = "returned"
       ELSE /\ pc' = "threw"
            /\ UNCHANGED <<steps, stepDetail, notifyVars, result>>
  /\ UNCHANGED <<outerVars, effects>>
  /\ UNCHANGED <<entry, page, app, stamp, auditVars, loopCount,
                 continueApplication, humanStep, error, waitVars, ghostVars>>

\* catch (error): addApplicationStep(error); updateApplicationStatus(failed);
\* notifyApplicationComplete(false); return {success:false, message}.
\* A store call that raises here has no handler around it.
Catch ==
  /\ entry = "run" /\ pc = "catch"
  /\ \E f \in 0..2 :
       /\ StepThenStatus(f, "error", <<"Error:", error>>, "failed")
       /\ IF f = 0
          THEN /\ sendNotification("Application Failed")
               /\ result' = [success |-> FALSE, message |-> <<error>>]
               /\ pc' = "returned"
          ELSE /\ pc' = "threw"
               /\ UNCHANGED <<notifyVars, result>>
  /\ UNCHANGED <<outerVars, effects>>
  /\ UNCHANGED <<entry, page, auditVars, loopCount, continueApplication,
                 humanStep, error, waitVars, ghostVars>>

(***************************************************************************)
(* The page changes under the program while it is suspended in an await.   *)
(***************************************************************************)
AwaitPositions == {"navigate", "settle", "loop", "poll", "sleep", "stabilize"}

PageChanges ==
  /\ pc \in AwaitPositions
  /\ page' \in WorkflowPages \ {page}
  /\ UNCHANGED <<outerVars, effects>>
  /\ UNCHANGED <<entry, pc, storeVars, sideVars, runVars, waitVars, ghostVars>>

(***************************************************************************)
(* The detector called alone on one page.  The page is put together first, *)
(* one element and one failing query at a time, in the order of            *)
(* SelectorSeq; a query that fails on a selector matching nothing counts 0 *)
(* like one that succeeds, so the failing queries are drawn among the      *)
(* selectors that match.                                                   *)
(***************************************************************************)
\* the largest position in SelectorSeq of a selector of S, 0 for none
Top(S) ==
  IF S = {} THEN 0
  ELSE CHOOSE i \in 1..Len(SelectorSeq) :
         /\ SelectorSeq[i] \in S
         /\ \A j \in (i + 1)..Len(SelectorSeq) : SelectorSeq[j] \notin S

PageGains ==
  /\ entry = "detector" /\ pc = "page"
  /\ page.failing = {}
  /\ Cardinality(page.present) < MaxMatching
  /\ \E i \in (Top(page.present) + 1)..Len(SelectorSeq) :
       page' = [page EXCEPT !.present = @ \cup {SelectorSeq[i]}]
  /\ UNCHANGED <<outerVars, effects>>
  /\ UNCHANGED <<entry, pc, storeVars, sideVars, runVars, waitVars, ghostVars>>

QueryBreaks ==
  /\ entry = "detector" /\ pc = "page"
  /\ Cardinality(page.failing) < MaxFailing
  /\ \E i \in (Top(page.failing) + 1)..Len(SelectorSeq) :
       /\ SelectorSeq[i] \in page.present
       /\ page' = [page EXCEPT !.failing = @ \cup {SelectorSeq[i]}]
  /\ UNCHANGED <<outerVars, effects>>
  /\ UNCHANGED <<entry, pc, storeVars, sideVars, runVars, waitVars, ghostVars>>

DetectorCall ==
  /\ entry = "detector" /\ pc = "page"
  /\ currentResult' = detectHumanStep(page)
  /\ lastDetection' = currentResult'.type
  /\ pc' = "detected"
  /\ UNCHANGED <<outerVars, effects>>
  /\ UNCHANGED <<entry, page, storeVars, sideVars, runVars, detectionResult,
                 timeoutMs, elapsed, resolved, polls, still, cycle1, cycle2>>

WaiterStep == PollResolved \/ PollStillThere \/ PollTimeout \/ Sleep

RunStep ==
  \/ Start \/ Navigate \/ Settle \/ CycleDetected \/ CycleClear
  \/ WaiterStep \/ TimedOut \/ Resolved \/ Stabilize \/ Complete \/ Catch

Next ==
  \/ Start \/ Navigate \/ NavigateFails \/ Settle \/ PageWaitFails
  \/ CycleDetected \/ CycleClear
  \/ PollResolved \/ PollStillThere \/ PollTimeout \/ Sleep \/ SleepFails
  \/ TimedOut \/ Resolved \/ Stabilize \/ Complete \/ Catch
  \/ PageChanges

Spec == Init /\ [][Next]_vars

\* the scheduler resumes the workflow whenever the awaited call returns
FairSpec == Spec /\ WF_vars(RunStep)

\* waitForHumanStepResolution(page, detectionResult, timeoutMs) called alone
InitWaiter ==
  /\ InitCommon
  /\ InitNoApply
  /\ InitNoLimiter
  /\ InitNoBrowser
  /\ faultBudget = 0
  /\ entry = "waiter"
  /\ pc = "poll"
  /\ page \in WorkflowPages
  /\ detectionResult \in {detectHumanStep(p) : p \in WorkflowPages} \ {Null}
  /\ timeoutMs \in {1000 * k : k \in 0..MaxTimeoutSec}

NextWaiter ==
  \/ PollResolved \/ PollStillThere \/ PollTimeout \/ Sleep \/ SleepFails
  \/ PageChanges

SpecWaiter == InitWaiter /\ [][NextWaiter]_vars

\* detectHumanStep(page) called alone
InitDetector ==
  /\ InitCommon
  /\ InitNoApply
  /\ InitNoLimiter
  /\ InitNoBrowser
  /\ faultBudget = 0
  /\ entry = "detector"
  /\ pc = "page"
  /\ page = BlankPage
  /\ detectionResult = Null
  /\ timeoutMs = DefaultTimeoutMs

NextDetector == PageGains \/ QueryBreaks \/ DetectorCall

SpecDetector == InitDetector /\ [][NextDetector]_vars


(***************************************************************************)
(* The apply command (cli/index: apply; cli/apply.ts: startApplication).   *)
(***************************************************************************)
Digits == <<"0", "1", "2", "3", "4", "5", "6", "7", "8", "9">>
DigitValue(c) == (CHOOSE i \in 1..Len(Digits) : Digits[i] = c) - 1

NaN == [nan |-> TRUE, value |-> 0]
Number(n) == [nan |-> FALSE, value |-> n]

\* the digits read from position i on; NaN when there is none
RECURSIVE ParseDigits(_, _, _, _)
ParseDigits(chars, i, acc, any) ==
  IF i > Len(chars) \/ chars[i] \notin Range(Digits)
  THEN (IF any THEN Number(acc) ELSE NaN)
  ELSE ParseDigits(chars, i + 1, 10 * acc + DigitValue(chars[i]), TRUE)

RECURSIVE SkipBlanks(_, _)
SkipBlanks(chars, i) ==
  IF i <= Len(chars) /\ chars[i] = " " THEN SkipBlanks(chars, i + 1) ELSE i

\* parseInt(string, 10): leading blanks are skipped, a sign is read, then
\* the longest run of digits; what follows the digits is ignored
parseInt(chars) ==
  LET i == SkipBlanks(chars, 1)
      signed == i <= Len(chars) /\ chars[i] \in {"-", "+"}
      digits == ParseDigits(chars, IF signed THEN i + 1 ELSE i, 0, FALSE)
  IN  IF digits.nan THEN NaN
      ELSE IF signed /\ chars[i] = "-" THEN Number(0 - digits.value)
      ELSE digits

\* values of --job the command is given
JobArgs ==
  {Absent, Given(<<>>), Given(<<"7">>), Given(<<"7", "x">>),
   Given(<<"x", "7">>), Given(<<"-", "7">>), Given(<<"1", "2">>)}

\* ids of the jobs table
JobIds == {7}

\* mutant: the lookup never finds a run
getApplicationByJobId_None(rows) == FALSE

\* getApplicationByJobId(jobId): is there a run of the job
getApplicationByJobId(rows) == rows > 0

\* the store as an earlier invocation of the command on the same job left
\* it: no run; a run whose waiter timed out on a CAPTCHA; a run completed on
\* a clear first pass; a run whose navigation failed
NoRun ==
  [FreshStore EXCEPT !.applications = 0, !.app.status = "absent"]

PausedRun ==
  [applications |-> 1,
   app |-> [status |-> "paused", startedAt |-> 1, completedAt |-> NULL],
   stamp |-> 4,
   steps |-> <<"navigation", "human_step_detected">>,
   stepDetail |-> <<"captcha", "reCAPTCHA verification required">>,
   auditLog |-> SetToBag({[actionType |-> "application_start",
                           userConfirmed |-> TRUE],
                          [actionType |-> "human_step_pause",
                           userConfirmed |-> FALSE]})]

CompletedRun ==
  [applications |-> 1,
   app |-> [status |-> "completed", startedAt |-> 1, completedAt |-> 2],
   stamp |-> 3,
   steps |-> <<"navigation", "submission">>,
   stepDetail |-> <<"manual submission required">>,
   auditLog |-> SetToBag({[actionType |-> "application_start",
                           userConfirmed |-> TRUE]})]

FailedRun ==
  [applications |-> 1,
   app |-> [status |-> "failed", startedAt |-> 1, completedAt |-> 2],
   stamp |-> 3,
   steps |-> <<"navigation", "error">>,
   stepDetail |-> <<"Error:", NavError>>,
   auditLog |-> SetToBag({[actionType |-> "application_start",
                           userConfirmed |-> TRUE]})]

PriorStores == {NoRun, PausedRun, CompletedRun, FailedRun}

\* what no step of the command changes
applyFrame ==
  <<page, notifyVars, auditFailures, runVars, waitVars, ghostVars, effects,
    limVars, browserVars, faultBudget, jobArg, prior, stamp, steps,
    stepDetail>>

\* the process ends with a message on the console
Exit(status, message) ==
  /\ console' = console \cup {message}
  /\ exitStatus' = status
  /\ cli' = "exited"

\* .action(wrapCommand(...)): without --job the command throws a
\* ConfigurationError, handleError prints it with the usage and exits 1
ApplyCommand ==
  /\ cli = "command"
  /\ IF ~jobArg.given \/ jobArg.value = <<>>
     THEN Exit("1", "usage")
     ELSE cli' = "start" /\ UNCHANGED <<console, exitStatus>>
  /\ UNCHANGED <<entry, pc, app, auditLog, session, applications, runId,
                 jobStatus, confirmed>>
  /\ UNCHANGED applyFrame

\* startApplication up to its first prompt: initializeDatabase, parseInt,
\* getJobById, getApplicationByJobId, createApplication.  A store call that
\* raises is caught at the end of startApplication: process.exit(1).
StartApplication ==
  /\ cli = "start"
  /\ \E storeRaises \in BOOLEAN :
       LET jobId == parseInt(jobArg.value)
       IN  IF storeRaises
           THEN Exit("1", "error") /\ UNCHANGED <<app, applications>>
           ELSE IF jobId.nan
           THEN Exit("0", "invalid job") /\ UNCHANGED <<app, applications>>
           ELSE IF jobId.value \notin JobIds
           THEN Exit("0", "job not found") /\ UNCHANGED <<app, applications>>
           ELSE IF getApplicationByJobId(applications)
           THEN /\ cli' = "existing"
                /\ UNCHANGED <<console, exitStatus, app, applications>>
           ELSE /\ applications' = applications + 1
                /\ app' = FreshStore.app
                /\ cli' = "ready"
                /\ UNCHANGED <<console, exitStatus>>
  /\ UNCHANGED <<entry, pc, auditLog, session, runId, jobStatus, confirmed>>
  /\ UNCHANGED applyFrame

\* the prompt "Continue anyway?" is answered
AnswerExisting ==
  /\ cli = "existing"
  /\ \/ /\ confirmed' = confirmed \cup {"continueAnyway"}
        /\ cli' = "ready"
        /\ UNCHANGED <<console, exitStatus>>
     \/ /\ Exit("0", "cancelled")
        /\ UNCHANGED confirmed
  /\ UNCHANGED <<entry, pc, app, auditLog, session, applications, runId,
                 jobStatus>>
  /\ UNCHANGED applyFrame

\* the prompt "Ready to launch browser and start application?" is answered
AnswerReady ==
  /\ cli = "ready"
  /\ \/ /\ confirmed' = confirmed \cup {"ready"}
        /\ cli' = "launch"
        /\ UNCHANGED <<console, exitStatus>>
     \/ /\ Exit("0", "cancelled")
        /\ UNCHANGED confirmed
  /\ UNCHANGED <<entry, pc, app, auditLog, session, applications, runId,
                 jobStatus>>
  /\ UNCHANGED applyFrame

\* await createPage() returns; updateJobStatus(applied);
\* audit(application_start, true); runApplicationWorkflow is called.
\* updateJobStatus raising is caught at the end of startApplication, where
\* the page is closed and the process exits 1.
Launch ==
  /\ cli = "launch"
  /\ \E f \in 0..1 :
       IF f = 0
       THEN /\ session' = "open"
            /\ jobStatus' = "applied"
            /\ audit("application_start", TRUE)
            /\ runId' = applications
            /\ entry' = "run"
            /\ pc' = "start"
            /\ cli' = "running"
            /\ UNCHANGED <<console, exitStatus>>
       ELSE /\ session' = "closed"
            /\ Exit("1", "error")
            /\ UNCHANGED <<jobStatus, auditVars, runId, entry, pc>>
  /\ UNCHANGED <<app, applications, confirmed>>
  /\ UNCHANGED <<page, notifyVars, runVars, waitVars, ghostVars, effects,
                 limVars, browserVars, faultBudget, jobArg, prior, stamp, steps,
                 stepDetail>>

\* await createPage() raises: no page to close, process.exit(1)
LaunchFails ==
  /\ cli = "launch"
  /\ Exit("1", "error")
  /\ UNCHANGED <<entry, pc, app, auditLog, session, applications, runId,
                 jobStatus, confirmed>>
  /\ UNCHANGED applyFrame

\* runApplicationWorkflow returned its result: it is printed and the
\* prompt "Close browser window?" is shown
RunReturns ==
  /\ cli = "running" /\ pc = "returned"
  /\ console' = console \cup {IF result.success THEN "completed" ELSE "failed"}
  /\ cli' = "close"
  /\ UNCHANGED <<entry, pc, app, auditLog, exitStatus, session, applications,
                 runId, jobStatus, confirmed>>
  /\ UNCHANGED applyFrame

\* runApplicationWorkflow raised: caught at the end of startApplication,
\* the page is closed, process.exit(1)
RunThrows ==
  /\ cli = "running" /\ pc = "threw"
  /\ session' = "closed"
  /\ Exit("1", "error")
  /\ UNCHANGED <<entry, pc, app, auditLog, applications, runId, jobStatus,
                 confirmed>>
  /\ UNCHANGED applyFrame

\* the prompt "Close browser window?" is answered: page.close() on yes
AnswerClose ==
  /\ cli = "close"
  /\ \/ /\ confirmed' = confirmed \cup {"closeBrowserNow"}
        /\ session' = "closed"
        /\ Exit("0", "browser closed")
     \/ /\ Exit("0", "browser left open")
        /\ UNCHANGED <<confirmed, session>>
  /\ UNCHANGED <<entry, pc, app, auditLog, applications, runId, jobStatus>>
  /\ UNCHANGED applyFrame

InitApply ==
  /\ InitLocals
  /\ InitNoLimiter
  /\ InitNoBrowser
  /\ faultBudget = 0
  /\ entry = "apply"
  /\ pc = "idle"
  /\ page = BlankPage
  /\ detectionResult = Null
  /\ timeoutMs = DefaultTimeoutMs
  /\ cli = "command"
  /\ jobArg \in JobArgs
  /\ prior \in PriorStores
  /\ InitStore(prior)
  /\ applications = prior.applications
  /\ jobStatus = (IF prior.steps = <<>> THEN "new" ELSE "applied")
  /\ exitStatus = "none"
  /\ console = {}
  /\ session = "none"
  /\ runId = 0
  /\ confirmed = {}

NextApply ==
  \/ ApplyCommand \/ StartApplication \/ AnswerExisting \/ AnswerReady
  \/ Launch \/ LaunchFails \/ RunReturns \/ RunThrows \/ AnswerClose
  \/ Next

SpecApply == InitApply /\ [][NextApply]_vars

(***************************************************************************)
(* The workflow with a notifier and an audit sink that may fail.           *)
(***************************************************************************)
InitFaults ==
  /\ InitCommon
  /\ InitNoApply
  /\ InitNoLimiter
  /\ InitNoBrowser
  /\ faultBudget = MaxFaults
  /\ entry = "run"
  /\ pc = "start"
  /\ page = BlankPage
  /\ detectionResult = Null
  /\ timeoutMs = DefaultTimeoutMs

SpecFaults == InitFaults /\ [][Next]_vars


(***************************************************************************)
(* RateLimiter.waitAndProceed (utils/rate-limit).  Two callers hold        *)
(* limiters of the same key; a call is suspended only in its setTimeout.   *)
(***************************************************************************)
\* state.requests.filter((timestamp) => now - timestamp < this.windowMs)
Cleanup(requests, now, windowMs) ==
  SelectSeq(requests, LAMBDA timestamp : now - timestamp < windowMs)

\* state.requests.push(Date.now())
Record(requests, lastCleanup) ==
  /\ limiters' = [requests |-> Append(requests, clock),
                   lastCleanup |-> lastCleanup]
  /\ admitted' = Append(admitted, clock)

limiterFrame ==
  <<entry, pc, page, storeVars, sideVars, runVars, waitVars, ghostVars,
    effects, cliVars, browserVars, faultBudget>>

\* time passes
Tick ==
  /\ entry = "limiter"
  /\ clock < MaxClock
  /\ clock' = clock + 1
  /\ UNCHANGED <<limiters, calls, admitted>>
  /\ UNCHANGED limiterFrame

\* waitAndProceed up to its await: clean up, then record the request, or,
\* at the limit, sleep until the oldest request leaves the window
WaitAndProceed(c) ==
  /\ entry = "limiter"
  /\ calls[c].pc = "idle"
  /\ Len(admitted) + Cardinality({d \in Callers : calls[d].pc = "waiting"})
       < MaxCalls
  /\ LET now == clock
         requests == Cleanup(limiters.requests, now, calls[c].windowMs)
         waitTime == requests[1] + calls[c].windowMs - now
     IN  IF Len(requests) >= calls[c].maxRequests
         THEN IF waitTime > 0
              THEN /\ limiters' = [requests |-> requests, lastCleanup |-> now]
                   /\ calls' = [calls EXCEPT ![c].pc = "waiting",
                                             ![c].wake = now + waitTime]
                   /\ UNCHANGED admitted
              ELSE /\ Record(Cleanup(requests, clock, calls[c].windowMs), now)
                   /\ UNCHANGED calls
         ELSE /\ Record(requests, now)
              /\ UNCHANGED calls
  /\ UNCHANGED clock
  /\ UNCHANGED limiterFrame

\* the timer of setTimeout(resolve, waitTime) has fired: clean up again and
\* record the request
Wake(c) ==
  /\ entry = "limiter"
  /\ calls[c].pc = "waiting"
  /\ clock >= calls[c].wake
  /\ Record(Cleanup(limiters.requests, clock, calls[c].windowMs),
            limiters.lastCleanup)
  /\ calls' = [calls EXCEPT ![c].pc = "idle"]
  /\ UNCHANGED clock
  /\ UNCHANGED limiterFrame

InitLimiter ==
  /\ InitCommon
  /\ InitNoApply
  /\ faultBudget = 0
  /\ entry = "limiter"
  /\ pc = "idle"
  /\ page = BlankPage
  /\ detectionResult = Null
  /\ timeoutMs = DefaultTimeoutMs
  /\ limiters = NoRequests
  /\ clock = 0
  /\ \E maxRequests \in 1..MaxLimit :
       calls = [c \in Callers |-> Idle(maxRequests, WindowTicks)]
  /\ admitted = <<>>
  /\ InitNoBrowser

NextLimiter ==
  \/ Tick
  \/ \E c \in Callers : WaitAndProceed(c)
  \/ \E c \in Callers : Wake(c)

SpecLimiter == InitLimiter /\ [][NextLimiter]_vars

(***************************************************************************)
(* The browser launcher (browser/launcher): launchBrowser, closeBrowser.   *)
(* Two callers share the module variables browser and context; a call is   *)
(* suspended in chromium.launchPersistentContext, context.close and        *)
(* browser.close.                                                          *)
(***************************************************************************)
\* launchBrowser raised instead of returning a context
Raised == -1

browserFrame ==
  <<entry, pc, page, storeVars, sideVars, runVars, waitVars, ghostVars,
    effects, cliVars, limVars, faultBudget>>

\* the contexts that are open or that some variable still refers to
Known ==
  (contexts
     \cup {context, browser}
     \cup {launches[d].got : d \in Callers}
     \cup {launches[d].target : d \in Callers}) \ {NULL, Raised}

\* launchBrowser up to its await: if (browser && context) return them,
\* otherwise chromium.launchPersistentContext is called
LaunchBrowser(c) ==
  /\ entry = "browser"
  /\ launches[c].pc = "idle"
  /\ IF browser # NULL /\ context # NULL
     THEN launches' = [launches EXCEPT ![c].got = context]
     ELSE /\ Cardinality({d \in Callers : launches[d].pc = "launching"})
               + Cardinality(Known) < MaxContexts
          /\ launches' = [launches EXCEPT ![c].pc = "launching", ![c].got = NULL]
  /\ UNCHANGED <<browser, context, contexts>>
  /\ UNCHANGED browserFrame

\* the smallest context not yet handed out
NewContext ==
  CHOOSE id \in 1..MaxContexts :
    /\ id \notin Known
    /\ \A j \in 1..(id - 1) : j \in Known

\* chromium.launchPersistentContext returns: context = the new context;
\* browser = context.browser(), which is the owning Browser or null,
\* depending on the browser library
Launched(c) ==
  /\ entry = "browser"
  /\ launches[c].pc = "launching"
  /\ \E id \in 1..MaxContexts :
       /\ id = NewContext
       /\ context' = id
       /\ contexts' = contexts \cup {id}
       /\ \E owner \in {NULL, id} : browser' = owner
       /\ launches' = [launches EXCEPT ![c].pc = "idle", ![c].got = id]
  /\ UNCHANGED browserFrame

\* chromium.launchPersistentContext raises because the profile is in use by
\* a context that is open or being launched: catch, log, throw
LaunchRaises(c) ==
  /\ entry = "browser"
  /\ launches[c].pc = "launching"
  /\ \/ contexts # {}
     \/ \E d \in Callers \ {c} : launches[d].pc = "launching"
  /\ launches' = [launches EXCEPT ![c].pc = "idle", ![c].got = Raised]
  /\ UNCHANGED <<browser, context, contexts>>
  /\ UNCHANGED browserFrame

\* closeBrowser up to its first await: context.close() when context is set,
\* else browser.close() when browser is set, else nothing to close
CloseBrowser(c) ==
  /\ entry = "browser"
  /\ launches[c].pc = "idle"
  /\ context # NULL \/ browser # NULL
  /\ launches' =
       IF context # NULL
       THEN [launches EXCEPT ![c] = [pc |-> "closingContext", got |-> NULL,
                                     target |-> context]]
       ELSE [launches EXCEPT ![c] = [pc |-> "closingBrowser", got |-> NULL,
                                     target |-> browser]]
  /\ UNCHANGED <<browser, context, contexts>>
  /\ UNCHANGED browserFrame

\* await context.close() returns: context = null; then browser.close() when
\* browser is set
ContextClosed(c) ==
  /\ entry = "browser"
  /\ launches[c].pc = "closingContext"
  /\ contexts' = contexts \ {launches[c].target}
  /\ context' = NULL
  /\ launches' =
       IF browser # NULL
       THEN [launches EXCEPT ![c].pc = "closingBrowser", ![c].target = browser]
       ELSE [launches EXCEPT ![c] = NoCall]
  /\ UNCHANGED browser
  /\ UNCHANGED browserFrame

\* await browser.close() returns: browser = null
BrowserClosed(c) ==
  /\ entry = "browser"
  /\ launches[c].pc = "closingBrowser"
  /\ contexts' = contexts \ {launches[c].target}
  /\ browser' = NULL
  /\ launches' = [launches EXCEPT ![c] = NoCall]
  /\ UNCHANGED context
  /\ UNCHANGED browserFrame

InitBrowser ==
  /\ InitCommon
  /\ InitNoApply
  /\ InitNoLimiter
  /\ InitNoBrowser
  /\ faultBudget = 0
  /\ entry = "browser"
  /\ pc = "idle"
  /\ page = BlankPage
  /\ detectionResult = Null
  /\ timeoutMs = DefaultTimeoutMs

NextBrowser ==
  \/ \E c \in Callers : LaunchBrowser(c)
  \/ \E c \in Callers : Launched(c)
  \/ \E c \in Callers : LaunchRaises(c)
  \/ \E c \in Callers : CloseBrowser(c)
  \/ \E c \in Callers : ContextClosed(c)
  \/ \E c \in Callers : BrowserClosed(c)

SpecBrowser == InitBrowser /\ [][NextBrowser]_vars

(***************************************************************************)
(* The page queries fail during a wait (the page is closed or navigates):  *)
(* every locator(...).count() rejects and its .catch(() => 0) counts 0.    *)
(***************************************************************************)
QueriesFail ==
  /\ entry = "run" /\ pc \in {"poll", "sleep"}
  /\ page.failing = {}
  /\ page' = [page EXCEPT !.failing = Selectors]
  /\ UNCHANGED <<outerVars, effects>>
  /\ UNCHANGED <<entry, pc, storeVars, sideVars, runVars, waitVars, ghostVars>>

NextQueryFaults == Next \/ QueriesFail

SpecQueryFaults == Init /\ [][NextQueryFaults]_vars

(***************************************************************************)
(* Properties.                                                             *)
(***************************************************************************)
CountSteps(stepType) ==
  Cardinality({i \in 1..Len(steps) : steps[i] = stepType})

Ended == pc \in {"returned", "threw"}

\* C1: run never lets an exception escape, whatever its collaborators do,
\* the store calls of the catch block included: the caller always receives
\* a {success, message} result.
C1_NoExceptionEscapes == pc # "threw"

\* C2: run marks the ApplicationRun completed and returns success:true only
\* after a detection pass that found no pending human step.
C2_CompletedOnlyAfterClearPass ==
  (result.success \/ app.status = "completed") => lastDetection = "none"

\* the selectors whose query reports a match
Observed(pg) == pg.present \ pg.failing

CaptchaCondition(pg) ==
  ({recaptchaFrame, hcaptchaFrame} \cup Range(captchaKeywords))
    \cap Observed(pg) # {}
TwoFACondition(pg) == Range(twoFAKeywords) \cap Observed(pg) # {}
FileUploadCondition(pg) ==
  fileInputs \in Observed(pg) /\ Range(uploadLabels) \cap Observed(pg) # {}
ConsentCondition(pg) ==
  Range(consentKeywords) \cap Observed(pg) # {} /\ checkboxes \in Observed(pg)

HighestPriority(pg) ==
  IF CaptchaCondition(pg) THEN "captcha"
  ELSE IF TwoFACondition(pg) THEN "2fa"
  ELSE IF FileUploadCondition(pg) THEN "file_upload"
  ELSE IF ConsentCondition(pg) THEN "consent"
  ELSE "none"

C6_RunTerminates ==
  /\ [](loopCount <= 20 /\ CountSteps("human_step_detected") <= 20)
  /\ <>Ended

C6_Witness ==
  /\ pc = "returned"
  /\ loopCount = 20
  /\ CountSteps("human_step_detected") = 20
  /\ CountSteps("human_step_resolved") = 20

\* C7: the waiter polls at once and then every 2 s while the elapsed time
\* is below the timeout; it returns true at the first poll that reports
\* nothing or another category, so after N polls that report the original
\* category it returns true N poll intervals after its start; it goes on
\* waiting only on a poll that reports the original category.
C7_PollSchedule ==
  /\ pc = "sleep" =>
       /\ polls = still
       /\ elapsed = 2000 * (polls - 1)
       /\ elapsed < timeoutMs
       /\ currentResult.detected
       /\ currentResult.type = detectionResult.type
  /\ (pc = "waited" /\ resolved = "true") =>
       /\ polls = still + 1
       /\ elapsed = 2000 * still
       /\ elapsed < timeoutMs
       /\ ~currentResult.detected \/ currentResult.type # detectionResult.type
  /\ (pc = "waited" /\ resolved = "false") => polls = still

C7_Witness ==
  /\ pc = "waited" /\ resolved = "true"
  /\ still = 2 /\ elapsed = 4000
  /\ currentResult.detected

\* C8: while every poll reports the original category the waiter does not
\* return true, and it returns false never before the timeout has elapsed
\* and no later than one poll interval (2 s) after it.
C8_TimeoutWindow ==
  /\ (pc = "waited" /\ resolved = "false") =>
       /\ elapsed >= timeoutMs
       /\ elapsed <= timeoutMs + 2000
  /\ (pc = "waited" /\ polls = still) => resolved = "false"

C8_Witness ==
  /\ pc = "waited" /\ resolved = "false"
  /\ timeoutMs = 5000 /\ elapsed = 6000
  /\ still = 3

\* C9: when any step of run raises, run writes exactly one error step
\* carrying the exception message, sets the status to failed, fires the
\* failure notification and returns success:false with that message.
C9_ErrorPath ==
  (Ended /\ error # "") =>
    /\ pc = "returned"
    /\ CountSteps("error") = 1
    /\ steps[Len(steps)] = "error"
    /\ stepDetail = <<"Error:", error>>
    /\ app.status = "failed"
    /\ notifyCalls # <<>>
    /\ notifyCalls[Len(notifyCalls)] = "Application Failed"
    /\ result = [success |-> FALSE, message |-> <<error>>]

\* C10: a failed page query counts as "not found" for that one selector:
\* whichever queries fail, detectHumanStep returns the result it returns on
\* the page where the selectors of the failed queries match nothing.
C10_FailedQueryCountsZero ==
  pc = "detected" =>
    currentResult =
      detectHumanStep([present |-> page.present \ page.failing,
                       failing |-> {}])

C10_Witness ==
  /\ pc = "detected"
  /\ recaptchaFrame \in page.present \cap page.failing
  /\ currentResult.detected
  /\ currentResult.type = "captcha"

\* C11: file-upload detection is true exactly when the page reports a
\* visible file input and at least one upload-prompt phrase; a bare file
\* input, or prompt text without a visible file input, is not detected.
\* With no CAPTCHA and no 2FA indicator on the page the detector then
\* returns file_upload.
C11_FileUploadIff ==
  pc = "detected" =>
    /\ detectFileUpload(page).detected <=>
         (fileInputs \in Observed(page)
          /\ \E i \in 1..Len(uploadLabels) : uploadLabels[i] \in Observed(page))
    /\ (fileInputs \in Observed(page)
        /\ Range(uploadLabels) \cap Observed(page) = {})
         => currentResult.type # "file_upload"
    /\ (fileInputs \notin Observed(page)) => currentResult.type # "file_upload"
    /\ (~CaptchaCondition(page) /\ ~TwoFACondition(page))
         => (currentResult.type = "file_upload" <=> FileUploadCondition(page))

C11_Witness ==
  /\ pc = "detected"
  /\ fileInputs \in Observed(page)
  /\ uploadLabels[3] \in Observed(page)
  /\ currentResult = Detected("file_upload",
                              "File upload required (resume/CV or document)",
                              uploadLabels[3])

C13_TimestampsSetOnce ==
  [][/\ (applications' = applications /\ app.startedAt # NULL)
          => app'.startedAt = app.startedAt
     /\ (applications' = applications /\ app.completedAt # NULL)
          => app'.completedAt = app.completedAt]_vars

\* C14: a notifier failure never aborts the workflow: when the desktop
\* notification fails at the page-loaded, the human-step-detected or the
\* complete/failed notification point, the step has the effect on position,
\* steps, status and result that it has when the notification succeeds, and
\* no exception of the notifier is caught or let out by run.
C14_NotifierFailureSwallowed ==
  /\ [](error \in {"", NavError, WaitError, StoreError})
  /\ [][(notifyFailures' = notifyFailures + 1) =>
          /\ error' = error
          /\ CASE pc = "navigate" ->
                    /\ pc' = "settle"
                    /\ UNCHANGED <<steps, app, result>>
               [] pc = "loop" /\ LoopContinues ->
                    /\ pc' = "poll"
                    /\ steps' = Append(steps, "human_step_detected")
                    /\ app'.status = "paused"
                    /\ result' = result
               [] pc = "loop" /\ ~LoopContinues ->
                    /\ pc' = "returned"
                    /\ steps' = Append(steps, "submission")
                    /\ app'.status = "completed"
                    /\ result' = [success |-> TRUE,
                                  message |-> CompletedMessage]
               [] pc = "catch" ->
                    /\ pc' = "returned"
                    /\ steps' = Append(steps, "error")
                    /\ app'.status = "failed"
                    /\ result' = [success |-> FALSE, message |-> <<error>>]
               [] OTHER -> FALSE]_vars

C14_Witness ==
  /\ notifyFailures = 1
  /\ pc = "returned"
  /\ result.success
  /\ cycle1 = "captcha" /\ cycle2 = "none"
  /\ Len(notifyCalls) = 3

\* C15: an audit sink failure never aborts the caller: when the write of an
\* audit entry fails, audit() returns normally, the entry is missing, and
\* the step of run has the effect on position, steps and status that it has
\* when the write succeeds.
C15_AuditFailureSwallowed ==
  /\ [](error \in {"", NavError, WaitError, StoreError})
  /\ [][(auditFailures' = auditFailures + 1) =>
          /\ error' = error
          /\ auditLog' = auditLog
          /\ result' = result
          /\ CASE pc = "loop" ->
                    /\ pc' = "poll"
                    /\ steps' = Append(steps, "human_step_detected")
                    /\ app'.status = "paused"
               [] pc = "waited" ->
                    /\ pc' = "stabilize"
                    /\ steps' = Append(steps, "human_step_resolved")
                    /\ app'.status = "in_progress"
               [] OTHER -> FALSE]_vars

C15_Witness ==
  /\ auditFailures = 1
  /\ pc = "returned"
  /\ result.success
  /\ CountSteps("human_step_resolved") = 1
  /\ [actionType |-> "human_step_resume", userConfirmed |-> TRUE]
       \notin BagToSet(auditLog)

\* a decimal number: an optional sign and digits, nothing else
IsNumeric(chars) ==
  LET from == IF chars # <<>> /\ chars[1] \in {"-", "+"} THEN 2 ELSE 1
  IN  /\ Len(chars) >= from
      /\ \A i \in from..Len(chars) : chars[i] \in Range(Digits)

\* C16: when --job is omitted or its value is not numeric the apply command
\* exits with a non-zero status and a usage or error message, and it
\* neither creates an ApplicationRun nor launches a browser.
C16_BadJobArgRejected ==
  (~jobArg.given \/ ~IsNumeric(jobArg.value)) =>
    /\ applications = prior.applications
    /\ session = "none"
    /\ runId = 0
    /\ cli = "exited" =>
         /\ exitStatus = "1"
         /\ console \cap {"usage", "invalid job", "error"} # {}

\* audit rows with user_confirmed = true written since the command began
ConfirmedRows(actionTypes) ==
  {e \in BagToSet(auditLog) :
     /\ e.userConfirmed
     /\ e.actionType \in actionTypes
     /\ CopiesIn(e, auditLog) > CopiesIn(e, prior.auditLog)}

\* C17: in startApplication the session is launched, and run invoked, only
\* after the launch confirmation, and the page is closed only after the
\* close confirmation; each of the two confirmations that gated its action
\* is recorded as an audit entry with userConfirmed = true.
C17_ConfirmedThenAudited ==
  /\ (session # "none" \/ runId # 0) => "ready" \in confirmed
  /\ runId # 0 => ConfirmedRows({"application_start"}) # {}
  /\ session = "closed" => "closeBrowserNow" \in confirmed
  /\ (session = "closed" /\ "closeBrowserNow" \in confirmed) =>
       ConfirmedRows({"submission_confirm", "submission_cancel",
                      "browser_close"}) # {}

\* C18: a paused run is resumable: when apply is invoked again for a job
\* whose latest ApplicationRun is paused, no new run is created; once the
\* user has confirmed to continue, the workflow is handed the id of that
\* same run, moves it from paused back to in_progress (startedAt kept) and
\* appends to the step log it found.
C18_PausedRunResumed ==
  prior.app.status = "paused" =>
    /\ applications = prior.applications
    /\ runId # 0 => (runId = prior.applications /\ "continueAnyway" \in confirmed)
    /\ Len(steps) >= Len(prior.steps)
    /\ SubSeq(steps, 1, Len(prior.steps)) = prior.steps
    /\ (cli = "running" /\ pc = "navigate") =>
         /\ app.status = "in_progress"
         /\ app.startedAt = prior.app.startedAt
         /\ steps = prior.steps \o <<"navigation">>

C18_Witness ==
  /\ prior = PausedRun
  /\ "continueAnyway" \in confirmed
  /\ cli = "running" /\ pc = "navigate"
  /\ runId = 1 /\ applications = 1
  /\ app.status = "in_progress"
  /\ steps = <<"navigation", "human_step_detected", "navigation">>

\* requests recorded in the interval of windowMs that begins at time t
AdmittedFrom(t, windowMs) ==
  Cardinality({j \in 1..Len(admitted) :
                 admitted[j] >= t /\ admitted[j] < t + windowMs})

\* C19: the rate limiter respects the configured limit: whatever calls of
\* waitAndProceed are made on limiters of one key, calls that overlap in
\* time included, no more than maxRequests requests are admitted within any
\* interval of windowMs.
C19_LimitRespected ==
  entry = "limiter" =>
    \A c \in Callers : \A i \in 1..Len(admitted) :
      AdmittedFrom(admitted[i], calls[c].windowMs) <= calls[c].maxRequests

\* the waiter is running on behalf of run
WaiterInvoked == entry = "run" /\ pc \in {"poll", "sleep"}

ResumeRow == [actionType |-> "human_step_resume", userConfirmed |-> TRUE]

C23_ResultAgreesWithStatus ==
  (entry = "run" /\ pc = "returned") =>
    /\ result.success <=> app.status = "completed"
    /\ (~result.success /\ app.status = "failed") <=> error # ""
    /\ (~result.success /\ app.status = "paused") <=>
         (resolved = "false" /\ error = "")
    /\ app.status \in {"completed", "failed", "paused"}
    /\ result.success => (error = "" /\ resolved # "false")

C23_Witness ==
  /\ entry = "run" /\ pc = "returned"
  /\ ~result.success /\ app.status = "failed"
  /\ error = WaitError
  /\ CountSteps("human_step_detected") = 1

\* C24: the browser session is a singleton: no second browser context is
\* opened while one is open; repeated calls of launchBrowser, and calls
\* that overlap while the first launch is under way, all obtain the same
\* context until closeBrowser is called.
C24_OneContext ==
  entry = "browser" =>
    /\ Cardinality(contexts) <= 1
    /\ \A c \in Callers : launches[c].got # Raised
    /\ \A c \in Callers :
         launches[c].got \in contexts => launches[c].got = context

\* the shape of the step log of one run: one navigation step, pairs of
\* human_step_detected and human_step_resolved, at most one unmatched
\* human_step_detected, at most one final submission or error step, and no
\* submission right after an unmatched human_step_detected
StepLogShape(rows) ==
  \A i \in 1..Len(rows) :
    /\ (i = 1) <=> (rows[i] = "navigation")
    /\ rows[i] \in {"navigation", "human_step_detected", "human_step_resolved",
                    "submission", "error"}
    /\ rows[i] = "human_step_resolved" =>
         (i > 1 /\ rows[i - 1] = "human_step_detected")
    /\ rows[i] = "human_step_detected" =>
         (i > 1 /\ rows[i - 1] \in {"navigation", "human_step_resolved"})
    /\ rows[i] \in {"submission", "error"} => i = Len(rows)
    /\ rows[i] = "submission" =>
         (i > 1 /\ rows[i - 1] # "human_step_detected")

\* C25: for one run on a fresh ApplicationRun the step log is at every
\* moment a prefix of: one navigation step, then (human_step_detected,
\* human_step_resolved) pairs of the same category, then at most one
\* unmatched human_step_detected, then at most one final submission or
\* error step; a submission never follows an unmatched
\* human_step_detected, and the persisted status is paused only while the
\* last step is an unmatched human_step_detected.
C25_StepLogGrammar ==
  /\ [](entry = "run" =>
          /\ StepLogShape(steps)
          /\ app.status = "paused" =>
               (steps # <<>> /\ steps[Len(steps)] = "human_step_detected"))
  /\ [][(entry = "run" /\ steps' = Append(steps, "human_step_resolved")) =>
          (stepDetail # <<>> /\ stepDetail'[1] = stepDetail[1])]_vars

\* C26: whenever waitForHumanStepResolution returns false the page still
\* reports the originally detected category at the moment it returns: a
\* human step that clears before the deadline, for instance during the last
\* 2 s sleep, is not reported as a timeout (stated for a wait that polled at
\* least once, so that its last sleep began before the deadline).
C26_TimeoutMeansStillThere ==
  (entry = "waiter" /\ pc = "waited" /\ resolved = "false" /\ polls > 0) =>
    ~IsResolved(detectHumanStep(page), detectionResult)

\* the page with every query answered
Answering(pg) == [pg EXCEPT !.failing = {}]

\* C27: a waiter poll in which the page queries fail is not treated as
\* resolution: waitForHumanStepResolution returns true, and run writes
\* human_step_resolved and the userConfirmed = TRUE audit entry, only after
\* a poll whose queries succeeded and found the original category absent.
C27_FailedPollNotResolution ==
  /\ []((entry = "run" /\ pc = "waited" /\ resolved = "true") =>
          /\ page.failing = {}
          /\ IsResolved(detectHumanStep(Answering(page)), detectionResult))
  /\ [][(entry = "run" /\ steps' = Append(steps, "human_step_resolved")) =>
          /\ page.failing = {}
          /\ IsResolved(detectHumanStep(Answering(page)), detectionResult)]_vars

\* the detection condition of one category on a page
OwnCondition(type, pg) ==
  CASE type = "captcha" -> detectCaptcha(pg).detected
    [] type = "2fa" -> detect2FA(pg).detected
    [] type = "file_upload" -> detectFileUpload(pg).detected
    [] type = "consent" -> detectConsent(pg).detected
    [] OTHER -> FALSE

\* the categories detectHumanStep checks before the given one
CheckedBefore(type) ==
  CASE type = "captcha" -> {}
    [] type = "2fa" -> {"captcha"}
    [] type = "file_upload" -> {"captcha", "2fa"}
    [] type = "consent" -> {"captcha", "2fa", "file_upload"}
    [] OTHER -> {}

C29_TerminalStatusKept ==
  /\ [](app.status # "absent" =>
          (app.completedAt # NULL <=> app.status \in {"completed", "failed"}))
  /\ [][(applications' = applications /\ app.status \in {"completed", "failed"})
          => app'.status = app.status]_vars

\* C30: when the user declines the continue-anyway prompt or the launch
\* confirmation, startApplication leaves everything unchanged: no
\* ApplicationRun is created, the job status is not changed, no audit entry
\* and no step is written, and no browser session is launched.
C30_DeclineChangesNothing ==
  (entry = "apply" /\ "cancelled" \in console) =>
    /\ applications = prior.applications
    /\ app = prior.app
    /\ jobStatus = (IF prior.steps = <<>> THEN "new" ELSE "applied")
    /\ auditLog = prior.auditLog
    /\ steps = prior.steps
    /\ session = "none"
    /\ runId = 0

====
